---- MODULE Spec2Model ----
(***************************************************************************)
(* A model of the QA Dashboard main module (dashboard/src/dashboard.py).   *)
(*                                                                         *)
(* Four specifications share the module:                                   *)
(*   SpecPercentage  percentage() applied to bounded inputs                *)
(*   SpecParser      parse_linter_results() scanning a bounded file        *)
(*   SpecStatus      update_overall_status() applied to a bounded Results  *)
(*   Spec            main(): one run of the dashboard, step by step        *)
(* Python strings are TLA+ strings, dictionaries are functions whose       *)
(* DOMAIN is the set of keys, and None is the empty tuple (an optional     *)
(* value v is <<v>>).                                                      *)
(***************************************************************************)
EXTENDS Integers, Sequences, FiniteSets, TLC

VARIABLES
    pct,        \* the frame of one call of percentage()
    parser,     \* the frame of one call of parse_linter_results()
    results,    \* the Results aggregate
    agg,        \* the frame of one call of update_overall_status()
    run         \* the frame of main() and what it did to the outside world

vars == <<pct, parser, results, agg, run>>

-----------------------------------------------------------------------------
(* Bounds of the model *)

MaxCount == 12      \* percentage(): part1, part2 in 0..MaxCount
MaxLines == 4       \* parse_linter_results(): files of at most MaxLines lines
MaxFiles == 10      \* update_overall_status(): file counts in 0..MaxFiles
MaxFailures == 1    \* main(): at most MaxFailures probes fail in one run

-----------------------------------------------------------------------------
(* Python values *)

None == <<>>
Some(v) == <<v>>

\* d[k] = v on a dictionary
Put(d, k, v) == [x \in (DOMAIN d) \cup {k} |-> IF x = k THEN v ELSE d[x]]

EmptyDict == [x \in {} |-> TRUE]

Whitespace == {" ", "\t"}

\* str.endswith
EndsWith(s, suffix) ==
    /\ Len(s) >= Len(suffix)
    /\ SubSeq(s, Len(s) - Len(suffix) + 1, Len(s)) = suffix

\* str.rstrip(): the trailing whitespace removed
RECURSIVE RStrip(_)
RStrip(s) ==
    IF Len(s) > 0 /\ SubSeq(s, Len(s), Len(s)) \in Whitespace
    THEN RStrip(SubSeq(s, 1, Len(s) - 1))
    ELSE s

\* str.lstrip(): the leading whitespace removed
RECURSIVE LStrip(_)
LStrip(s) ==
    IF Len(s) > 0 /\ SubSeq(s, 1, 1) \in Whitespace
    THEN LStrip(SubSeq(s, 2, Len(s)))
    ELSE s

\* str.strip()
Strip(s) == LStrip(RStrip(s))

\* the decimal digits of a natural number, as "{:d}" writes them
RECURSIVE FormatNat(_)
FormatNat(n) ==
    IF n < 10 THEN SubSeq("0123456789", n + 1, n + 1)
    ELSE FormatNat(n \div 10) \o SubSeq("0123456789", (n % 10) + 1, (n % 10) + 1)

\* "{:.0f}".format(num / den) for num >= 0, den > 0: the quotient rounded to
\* the nearest integer, an exact half to the even neighbour
FormatFloat0(num, den) ==
    LET q == num \div den
        r == num % den
    IN  IF 2 * r < den THEN FormatNat(q)
        ELSE IF 2 * r > den THEN FormatNat(q + 1)
        ELSE IF q % 2 = 0 THEN FormatNat(q)
        ELSE FormatNat(q + 1)

-----------------------------------------------------------------------------
(* percentage *)

percentage_truncating(part1, part2) ==
    LET total == part1 + part2
    IN  IF total = 0 THEN "0" ELSE FormatNat((100 * part2) \div total)

percentage(part1, part2) ==
    LET total == part1 + part2
    IN  IF total = 0 THEN "0" ELSE FormatFloat0(100 * part2, total)

PctInit ==
    \E a \in 0..MaxCount, b \in 0..MaxCount :
        pct = [pc |-> "call", part1 |-> a, part2 |-> b, ret |-> None]

PctIdle == pct = [pc |-> "idle", part1 |-> 0, part2 |-> 0, ret |-> None]

PercentageCall ==
    /\ pct.pc = "call"
    /\ pct' = [pct EXCEPT !.pc = "done", !.ret = Some(percentage(pct.part1, pct.part2))]
    /\ UNCHANGED <<parser, results, agg, run>>

-----------------------------------------------------------------------------
(* parse_linter_results *)

\* the truth value of `source` in "if source:"
Truthy(source) == source # None /\ source[1] # ""

\* line 184: the line names a source file
on_source(st, line) == [st EXCEPT !.source = Some(Strip(line))]

on_pass_unguarded(st) ==
    [st EXCEPT !.passed = @ + 1, !.total = @ + 1,
               !.files = Put(@, IF st.source = None THEN "None" ELSE st.source[1], TRUE)]

\* lines 186-189: a Pass marker
on_pass(st) ==
    IF Truthy(st.source)
    THEN [st EXCEPT !.passed = @ + 1, !.total = @ + 1,
                    !.files = Put(@, st.source[1], TRUE)]
    ELSE st

on_fail_keeps_first(st) ==
    IF Truthy(st.source)
    THEN [st EXCEPT !.failed = @ + 1, !.total = @ + 1,
                    !.files = IF st.source[1] \in DOMAIN @ THEN @
                              ELSE Put(@, st.source[1], FALSE)]
    ELSE st

\* lines 191-194: a Fail marker
on_fail(st) ==
    IF Truthy(st.source)
    THEN [st EXCEPT !.failed = @ + 1, !.total = @ + 1,
                    !.files = Put(@, st.source[1], FALSE)]
    ELSE st

\* lines 182-194: the body of the loop for one line of the file
parse_line(st, raw) ==
    LET line == RStrip(raw)
        s1 == IF EndsWith(line, ".py") THEN on_source(st, line) ELSE st
        s2 == IF EndsWith(line, "    Pass") THEN on_pass(s1) ELSE s1
        s3 == IF EndsWith(line, "    Fail") THEN on_fail(s2) ELSE s2
    IN  s3

\* lines 196-201: the dictionary returned (the two progress-bar entries are
\* rendering hints computed outside this module and are left out)
linter_results(st) ==
    [files |-> st.files,
     total |-> st.total,
     passed |-> st.passed,
     failed |-> st.failed,
     passed_pct |-> percentage(st.failed, st.passed),
     failed_pct |-> percentage(st.passed, st.failed)]

\* the lines a checker's report is made of in the model
SampleLines ==
    {"a.py", "./b.py", "  a.py ", "    Pass", "    Fail", "    Pass \t", "Fail", "done"}

RECURSIVE SeqsUpTo(_, _)
SeqsUpTo(S, n) ==
    IF n = 0 THEN {<<>>}
    ELSE LET shorter == SeqsUpTo(S, n - 1)
         IN  shorter \cup {Append(s, x) : s \in {t \in shorter : Len(t) = n - 1}, x \in S}

\* lines 173-180: the state before the first line is read
ParserInit ==
    \E fin \in SeqsUpTo(SampleLines, MaxLines) :
        parser = [pc |-> "scan", fin |-> fin, pos |-> 1, source |-> None,
                  files |-> EmptyDict, passed |-> 0, failed |-> 0, total |-> 0,
                  ret |-> None]

ParserIdle ==
    parser = [pc |-> "idle", fin |-> <<>>, pos |-> 1, source |-> None,
              files |-> EmptyDict, passed |-> 0, failed |-> 0, total |-> 0,
              ret |-> None]

\* one iteration of "for line in fin"
ParseLinterLine ==
    /\ parser.pc = "scan"
    /\ parser.pos <= Len(parser.fin)
    /\ parser' = [parse_line(parser, parser.fin[parser.pos]) EXCEPT !.pos = @ + 1]
    /\ UNCHANGED <<pct, results, agg, run>>

\* the end of the file: the function returns
ParseLinterReturn ==
    /\ parser.pc = "scan"
    /\ parser.pos > Len(parser.fin)
    /\ parser' = [parser EXCEPT !.pc = "done", !.ret = Some(linter_results(parser))]
    /\ UNCHANGED <<pct, results, agg, run>>

-----------------------------------------------------------------------------
(* The Results aggregate and the module-level tables *)

\* lines 96-97
ignored_files_for_pylint == EmptyDict

\* lines 100-102
ignored_files_for_pydocstyle ==
    [r \in {"fabric8-analytics-worker"} |-> <<"tests/data/license/license.py">>]

\* lines 104-109
ci_job_types == <<"test_job", "build_job", "pylint_job", "pydoc_job">>

\* the list of repositories to check (module repositories)
repositories == <<"fabric8-analytics-worker", "fabric8-analytics-common">>

\* dict.get(key, default)
Get(d, k, default) == IF k \in DOMAIN d THEN d[k] ELSE default

\* Results(): every per-repository mapping starts empty
NewResults ==
    [source_files |-> EmptyDict,
     repo_linter_checks |-> EmptyDict,
     repo_docstyle_checks |-> EmptyDict,
     unit_test_coverage |-> EmptyDict,
     ci_jobs_statuses |-> EmptyDict,
     overall_status |-> EmptyDict,
     remarks |-> EmptyDict,
     stage |-> None,
     production |-> None,
     smoke_tests_builds |-> None,
     smoke_tests_statuses |-> None,
     perf_tests_results |-> None]

\* the minimum unit-test coverage a repository needs
CoverageThreshold == 80

\* unit_test_coverage_ok(): coverage is present and meets the threshold
unit_test_coverage_ok(unit_test_coverage) ==
    unit_test_coverage # None /\ unit_test_coverage[1] >= CoverageThreshold

-----------------------------------------------------------------------------
(* update_overall_status *)

overall_status_ignoring_docstyle_failures(v) ==
    /\ v.source_files = v.linter_checks.total + v.ignored_pylint_files
    /\ v.source_files = v.docstyle_checks.total + v.ignored_pydocstyle_files
    /\ v.linter_checks.failed = 0
    /\ unit_test_coverage_ok(v.unit_test_coverage)

\* lines 231-234, on the local variables v of update_overall_status
overall_status_value(v) ==
    /\ v.source_files = v.linter_checks.total + v.ignored_pylint_files
    /\ v.source_files = v.docstyle_checks.total + v.ignored_pydocstyle_files
    /\ v.linter_checks.failed = 0
    /\ v.docstyle_checks.failed = 0
    /\ unit_test_coverage_ok(v.unit_test_coverage)

\* "{n} file{s} ignored by <checker><br>"
IgnoredRemark(n, checker) ==
    FormatNat(n) \o " file" \o (IF n > 1 THEN "s" ELSE "") \o " ignored by "
        \o checker \o "<br>"

coverage_remark_silent_when_absent(unit_test_coverage) ==
    IF unit_test_coverage # None
    THEN (IF ~unit_test_coverage_ok(unit_test_coverage)
          THEN "improve code coverage<br>" ELSE "")
    ELSE ""

\* lines 247-251
coverage_remark(unit_test_coverage) ==
    IF unit_test_coverage # None
    THEN (IF ~unit_test_coverage_ok(unit_test_coverage)
          THEN "improve code coverage<br>" ELSE "")
    ELSE "unit tests has not been setup<br>"

\* lines 218, 236-265, on the local variables v of update_overall_status
remarks_value(v) ==
    ""
    \o (IF v.source_files # v.linter_checks.total + v.ignored_pylint_files
        THEN "not all source files are checked by linter<br>" ELSE "")
    \o (IF v.source_files # v.docstyle_checks.total + v.ignored_pydocstyle_files
        THEN "not all source files are checked by pydocstyle<br>" ELSE "")
    \o (IF v.linter_checks.total + v.ignored_pylint_files
             # v.docstyle_checks.total + v.ignored_pydocstyle_files
        THEN ", linter checked " \o FormatNat(v.linter_checks.total)
             \o " files, but pydocstyle checked " \o FormatNat(v.docstyle_checks.total)
             \o " files"
        ELSE "")
    \o coverage_remark(v.unit_test_coverage)
    \o (IF v.linter_checks.failed # 0 THEN "linter failed<br>" ELSE "")
    \o (IF v.docstyle_checks.failed # 0 THEN "pydocstyle check failed<br>" ELSE "")
    \o (IF v.ignored_pylint_files # 0
        THEN IgnoredRemark(v.ignored_pylint_files, "pylint") ELSE "")
    \o (IF v.ignored_pydocstyle_files # 0
        THEN IgnoredRemark(v.ignored_pydocstyle_files, "pydocstyle") ELSE "")

\* lines 220-223: a subscript of a missing key raises KeyError
update_overall_status_raises(res, repository) ==
    \/ repository \notin DOMAIN res.source_files
    \/ repository \notin DOMAIN res.repo_linter_checks
    \/ repository \notin DOMAIN res.repo_docstyle_checks
    \/ repository \notin DOMAIN res.unit_test_coverage

\* lines 220-229: the local variables of update_overall_status
status_locals(res, repository) ==
    [source_files |-> res.source_files[repository].count,
     linter_checks |-> res.repo_linter_checks[repository],
     docstyle_checks |-> res.repo_docstyle_checks[repository],
     unit_test_coverage |-> res.unit_test_coverage[repository],
     ignored_pylint_files |-> Len(Get(ignored_files_for_pylint, repository, <<>>)),
     ignored_pydocstyle_files |-> Len(Get(ignored_files_for_pydocstyle, repository, <<>>))]

\* lines 216-268: the Results aggregate after the call
update_overall_status(res, repository) ==
    LET v == status_locals(res, repository)
    IN  [res EXCEPT !.overall_status = Put(@, repository, overall_status_value(v)),
                    !.remarks = Put(@, repository, remarks_value(v))]

\* a checker's result record with the given counts
ChecksRecord(total, failed) ==
    [files |-> EmptyDict,
     total |-> total,
     passed |-> total - failed,
     failed |-> failed,
     passed_pct |-> percentage(failed, total - failed),
     failed_pct |-> percentage(total - failed, failed)]

CoverageSamples ==
    {None, Some(CoverageThreshold - 1), Some(CoverageThreshold), Some(CoverageThreshold + 5)}

Repositories == {repositories[i] : i \in DOMAIN repositories}

\* a Results aggregate holding the four inputs of one repository
StatusInit ==
    \E repository \in Repositories, count \in 0..MaxFiles,
       lt \in 0..MaxFiles, dt \in 0..MaxFiles, cov \in CoverageSamples :
        \E lf \in 0..lt, df \in 0..dt :
            /\ agg = [pc |-> "call", repository |-> repository]
            /\ results =
                 [NewResults EXCEPT
                    !.source_files = Put(@, repository, [count |-> count, total_lines |-> count]),
                    !.repo_linter_checks = Put(@, repository, ChecksRecord(lt, lf)),
                    !.repo_docstyle_checks = Put(@, repository, ChecksRecord(dt, df)),
                    !.unit_test_coverage = Put(@, repository, cov)]

StatusIdle ==
    /\ agg = [pc |-> "idle", repository |-> ""]
    /\ results = NewResults

UpdateOverallStatusCall ==
    /\ agg.pc = "call"
    /\ ~update_overall_status_raises(results, agg.repository)
    /\ results' = update_overall_status(results, agg.repository)
    /\ agg' = [agg EXCEPT !.pc = "done"]
    /\ UNCHANGED <<pct, parser, run>>

-----------------------------------------------------------------------------
(* check_environment_variables *)

\* lines 43-54
environment_variables ==
    <<"F8A_API_URL_STAGE", "F8A_API_URL_PROD", "F8A_JOB_API_URL_STAGE",
      "F8A_JOB_API_URL_PROD", "RECOMMENDER_API_TOKEN_STAGE",
      "RECOMMENDER_API_TOKEN_PROD", "JOB_API_TOKEN_STAGE", "JOB_API_TOKEN_PROD",
      "AWS_ACCESS_KEY_ID", "AWS_SECRET_ACCESS_KEY", "S3_REGION_NAME">>

-----------------------------------------------------------------------------
(* main: the flags, the inputs from outside, the helpers *)

\* lines 446-451
ci_jobs_table_enabled == ~run.cli.disable_ci_jobs
code_quality_table_enabled == ~run.cli.disable_code_quality
liveness_table_enabled == ~run.cli.disable_liveness
sla_table_enabled == ~run.cli.disable_sla
clone_repositories_enabled == run.cli.clone_repositories
cleanup_repositories_enabled == run.cli.cleanup_repositories

CliArguments ==
    [disable_ci_jobs : BOOLEAN, disable_code_quality : BOOLEAN,
     disable_liveness : BOOLEAN, disable_sla : BOOLEAN,
     clone_repositories : BOOLEAN, cleanup_repositories : BOOLEAN]

RequiredVariables == {environment_variables[i] : i \in DOMAIN environment_variables}

\* the environments the run may start in: any of the required variables set
Environments == SUBSET RequiredVariables

\* what the checker scripts may write into <repo>.linter.txt, <repo>.pydocstyle.txt
ReportSamples == {<<"a.py", "    Pass">>, <<"a.py", "    Fail">>}

\* what get_source_files may return
SourceFilesSamples == {[count |-> 1, total_lines |-> 10]}

\* what read_unit_test_coverage may return
UnitTestCoverageSamples == {None, Some(CoverageThreshold - 1), Some(CoverageThreshold + 5)}

\* the job colours the CI server reports, by job name
JobStatusesSample ==
    [name \in {<<repositories[1], ci_job_types[i]>> : i \in DOMAIN ci_job_types} |-> "blue"]

\* the builds the CI server remembers for the production smoke tests
BuildsSample == <<Some("SUCCESS"), Some("FAILURE"), None, Some("SUCCESS")>>

\* lines 171-203: the whole scan of a report
RECURSIVE scan_lines(_, _)
scan_lines(st, fin) ==
    IF fin = <<>> THEN st ELSE scan_lines(parse_line(st, Head(fin)), Tail(fin))

parse_linter_results(fin) ==
    linter_results(scan_lines([source |-> None, files |-> EmptyDict,
                               passed |-> 0, failed |-> 0, total |-> 0], fin))

\* ci_jobs.get_job_name
get_job_name(repository, job_type) == <<repository, job_type>>

\* lines 368-373: the statuses of the jobs of one repository
repository_job_statuses(job_statuses, repository) ==
    [job_type \in {ci_job_types[i] : i \in DOMAIN ci_job_types} |->
        IF get_job_name(repository, job_type) \in DOMAIN job_statuses
        THEN Some(job_statuses[get_job_name(repository, job_type)])
        ELSE None]

\* lines 434-436
count_builds(builds) ==
    <<Cardinality({i \in DOMAIN builds : builds[i] # None}),
      Cardinality({i \in DOMAIN builds : builds[i] = Some("SUCCESS")})>>

\* int(bool)
BoolToInt(b) == IF b THEN 1 ELSE 0

RECURSIVE repository_columns(_, _)
\* lines 300-308
repository_columns(res, repos) ==
    IF repos = <<>> THEN <<>>
    ELSE LET r == Head(repos)
         IN  <<res.source_files[r].count, res.source_files[r].total_lines,
               res.repo_linter_checks[r].total, res.repo_linter_checks[r].passed,
               res.repo_linter_checks[r].failed, res.repo_docstyle_checks[r].total,
               res.repo_docstyle_checks[r].passed, res.repo_docstyle_checks[r].failed>>
             \o repository_columns(res, Tail(repos))

\* what datetime.date.today().strftime("%Y-%m-%d") returns on the day of the run
TodaySample == "2018-03-01"

\* lines 288-308: the row export_into_csv writes
csv_record(res) ==
    <<TodaySample>> \o
    <<BoolToInt(res.stage[1].core_api_available), BoolToInt(res.stage[1].jobs_api_available),
      BoolToInt(res.stage[1].core_api_auth_token), BoolToInt(res.stage[1].jobs_api_auth_token),
      BoolToInt(res.production[1].core_api_available), BoolToInt(res.production[1].jobs_api_available),
      BoolToInt(res.production[1].core_api_auth_token), BoolToInt(res.production[1].jobs_api_auth_token)>>
    \o repository_columns(res, repositories)

\* lines 290-308: a subscript of None or of a missing key raises
export_into_csv_raises(res) ==
    \/ res.stage = None
    \/ res.production = None
    \/ \E i \in DOMAIN repositories :
          \/ repositories[i] \notin DOMAIN res.source_files
          \/ repositories[i] \notin DOMAIN res.repo_linter_checks
          \/ repositories[i] \notin DOMAIN res.repo_docstyle_checks

export_guard_with_sla == code_quality_table_enabled /\ liveness_table_enabled /\ sla_table_enabled

\* line 490
export_guard == code_quality_table_enabled /\ liveness_table_enabled

\* line 281
is_local_dir(repository) == ~(\E i \in 1..Len(repository) : SubSeq(repository, i, i) = "/")

repository_steps_status_first ==
    <<"clone", "pylint", "docstyle", "accumulate", "ci_jobs", "status", "cleanup">>

\* lines 348-377: the steps of the loop body, in the order of the code
repository_steps ==
    <<"clone", "pylint", "docstyle", "accumulate", "cleanup", "ci_jobs", "status">>

StepIndex(step) == CHOOSE i \in DOMAIN repository_steps : repository_steps[i] = step

\* the frame after the step at run.pc of the current repository: the next
\* step, or the first step of the next repository, or what follows the loop
Advance(frame) ==
    LET i == StepIndex(frame.pc)
    IN  IF i < Len(repository_steps)
        THEN [frame EXCEPT !.pc = repository_steps[i + 1]]
        ELSE IF frame.repo_i < Len(repositories)
        THEN [frame EXCEPT !.pc = repository_steps[1], !.repo_i = @ + 1]
        ELSE [frame EXCEPT !.pc = "sla"]

Logged(frame, what) == [frame EXCEPT !.log = Append(@, <<repositories[frame.repo_i], what>>)]

Raise(frame, exception) == [frame EXCEPT !.pc = "raised", !.raised = Some(exception)]

current_repository == repositories[run.repo_i]

\* the outcomes of the four probes of check_system: at most `budget` negative
CheckSystemOutcomes(budget) ==
    {o \in [core_api_available : BOOLEAN, jobs_api_available : BOOLEAN,
            core_api_auth_token : BOOLEAN, jobs_api_auth_token : BOOLEAN] :
        Cardinality({f \in DOMAIN o : ~o[f]}) <= budget}

ProbeName(environment, f) == environment \o "." \o f

FailedProbes(environment, o) ==
    {ProbeName(environment, f) : f \in {g \in DOMAIN o : ~o[g]}}

-----------------------------------------------------------------------------
(* main: the run *)

\* lines 441-451: the command line is parsed, nothing else has happened
RunInit ==
    \E cli \in CliArguments, environ \in Environments :
        run = [pc |-> "check_env", cli |-> cli, environ |-> environ, env_i |-> 1,
               exit_code |-> None, raised |-> None, job_statuses |-> None,
               repo_i |-> 1, failed_probes |-> {}, probes |-> {},
               linter_txt |-> EmptyDict, pydocstyle_txt |-> EmptyDict,
               log |-> <<>>, csv |-> <<>>, html |-> FALSE]

RunIdle ==
    run = [pc |-> "idle", cli |-> [disable_ci_jobs |-> FALSE, disable_code_quality |-> FALSE,
                                   disable_liveness |-> FALSE, disable_sla |-> FALSE,
                                   clone_repositories |-> FALSE, cleanup_repositories |-> FALSE],
           environ |-> {}, env_i |-> 1, exit_code |-> None, raised |-> None,
           job_statuses |-> None, repo_i |-> 1, failed_probes |-> {}, probes |-> {},
           linter_txt |-> EmptyDict, pydocstyle_txt |-> EmptyDict,
           log |-> <<>>, csv |-> <<>>, html |-> FALSE]

MayFail == Cardinality(run.failed_probes) < MaxFailures

check_environment_variable_no_exit(frame, env_var_name) == frame

\* lines 29-38: sys.exit(1) when the variable is not in os.environ
check_environment_variable(frame, env_var_name) ==
    IF env_var_name \notin frame.environ
    THEN [frame EXCEPT !.pc = "exited", !.exit_code = Some(1)]
    ELSE frame

\* lines 55-56 and 453-454: one turn of the loop over the required variables;
\* after the last one main creates the Results aggregate and goes on
CheckEnvironmentVariable ==
    /\ run.pc = "check_env"
    /\ run.env_i <= Len(environment_variables)
    /\ LET checked == check_environment_variable(run, environment_variables[run.env_i])
       IN  IF checked.pc = "exited"
           THEN run' = checked
           ELSE IF run.env_i < Len(environment_variables)
           THEN run' = [checked EXCEPT !.env_i = @ + 1]
           ELSE run' = [checked EXCEPT !.env_i = @ + 1, !.pc = "read_job_statuses"]
    /\ results' = NewResults
    /\ UNCHANGED <<pct, parser, agg>>

\* lines 407-425 and 470: the CI server is asked for the colours of all jobs,
\* when a table needs them; a failed request or a reply that does not parse
\* raises out of main
ReadJobStatuses ==
    /\ run.pc = "read_job_statuses"
    /\ IF ci_jobs_table_enabled \/ liveness_table_enabled
       THEN \/ run' = [run EXCEPT !.pc = "smoketests_status",
                                  !.probes = @ \cup {"ci_job_statuses"},
                                  !.job_statuses = Some(JobStatusesSample)]
            \/ /\ MayFail
               /\ run' = Raise([run EXCEPT !.probes = @ \cup {"ci_job_statuses"},
                                           !.failed_probes = @ \cup {"ci_job_statuses"}],
                               "RequestException")
       ELSE run' = [run EXCEPT !.pc = "smoketests_status", !.job_statuses = None]
    /\ UNCHANGED <<pct, parser, results, agg>>

\* lines 428-436 and 472-473: the builds of the production smoke tests
ProductionSmoketestsStatus ==
    /\ run.pc = "smoketests_status"
    /\ \/ /\ run' = [run EXCEPT !.pc = "liveness_stage",
                                !.probes = @ \cup {"ci_build_statuses"}]
          /\ results' = [results EXCEPT !.smoke_tests_builds = Some(count_builds(BuildsSample))]
       \/ /\ MayFail
          /\ run' = Raise([run EXCEPT !.probes = @ \cup {"ci_build_statuses"},
                                      !.failed_probes = @ \cup {"ci_build_statuses"}],
                          "RequestException")
          /\ UNCHANGED results
    /\ UNCHANGED <<pct, parser, agg>>

\* lines 480 and 319-321: the liveness table is skipped when disabled; else
\* the four probes of the stage environment, a failed probe answering False
PrepareLivenessStage ==
    /\ run.pc = "liveness_stage"
    /\ IF liveness_table_enabled
       THEN \E o \in CheckSystemOutcomes(MaxFailures - Cardinality(run.failed_probes)) :
               /\ run' = [run EXCEPT !.pc = "liveness_production",
                                     !.probes = @ \cup {ProbeName("stage", f) : f \in DOMAIN o},
                                     !.failed_probes = @ \cup FailedProbes("stage", o)]
               /\ results' = [results EXCEPT !.stage = Some(o)]
       ELSE /\ run' = [run EXCEPT !.pc = repository_steps[1]]
            /\ UNCHANGED results
    /\ UNCHANGED <<pct, parser, agg>>

\* lines 323-325: the four probes of the production environment
PrepareLivenessProduction ==
    /\ run.pc = "liveness_production"
    /\ \E o \in CheckSystemOutcomes(MaxFailures - Cardinality(run.failed_probes)) :
          /\ run' = [run EXCEPT !.pc = "liveness_smoke_tests",
                                !.probes = @ \cup {ProbeName("production", f) : f \in DOMAIN o},
                                !.failed_probes = @ \cup FailedProbes("production", o)]
          /\ results' = [results EXCEPT !.production = Some(o)]
    /\ UNCHANGED <<pct, parser, agg>>

\* lines 327-330: SmokeTests looks its jobs up in job_statuses
PrepareLivenessSmokeTests ==
    /\ run.pc = "liveness_smoke_tests"
    /\ IF run.job_statuses = None
       THEN /\ run' = Raise(run, "AttributeError")
            /\ UNCHANGED results
       ELSE /\ run' = [run EXCEPT !.pc = repository_steps[1]]
            /\ results' = [results EXCEPT !.smoke_tests_statuses =
                              Some(repository_job_statuses(run.job_statuses[1], "production"))]
    /\ UNCHANGED <<pct, parser, agg>>

\* lines 351-352
CloneOrFetchRepository ==
    /\ run.pc = "clone"
    /\ run' = Advance(IF clone_repositories_enabled
                      THEN Logged(run, "clone_or_fetch_repository") ELSE run)
    /\ UNCHANGED <<pct, parser, results, agg>>

\* lines 354-355: the linter writes its report
RunPylint ==
    /\ run.pc = "pylint"
    /\ IF code_quality_table_enabled
       THEN \E report \in ReportSamples :
               run' = Advance([Logged(run, "run_pylint") EXCEPT
                                  !.linter_txt = Put(@, current_repository, report)])
       ELSE run' = Advance(run)
    /\ UNCHANGED <<pct, parser, results, agg>>

\* lines 354 and 356: the docstyle checker writes its report
RunDocstyleCheck ==
    /\ run.pc = "docstyle"
    /\ IF code_quality_table_enabled
       THEN \E report \in ReportSamples :
               run' = Advance([Logged(run, "run_docstyle_check") EXCEPT
                                  !.pydocstyle_txt = Put(@, current_repository, report)])
       ELSE run' = Advance(run)
    /\ UNCHANGED <<pct, parser, results, agg>>

\* lines 354 and 358-360: the source files are counted, the reports parsed
AccumulateResults ==
    /\ run.pc = "accumulate"
    /\ IF code_quality_table_enabled
       THEN \E source_files \in SourceFilesSamples :
               /\ run' = Advance(Logged(run, "parse_results"))
               /\ results' =
                    [results EXCEPT
                       !.source_files = Put(@, current_repository, source_files),
                       !.repo_linter_checks =
                           Put(@, current_repository, parse_linter_results(run.linter_txt[current_repository])),
                       !.repo_docstyle_checks =
                           Put(@, current_repository, parse_linter_results(run.pydocstyle_txt[current_repository]))]
       ELSE /\ run' = Advance(run)
            /\ UNCHANGED results
    /\ UNCHANGED <<pct, parser, agg>>

\* lines 364-365 and 278-283
CleanupRepository ==
    /\ run.pc = "cleanup"
    /\ run' = Advance(IF cleanup_repositories_enabled /\ is_local_dir(current_repository)
                      THEN Logged(run, "cleanup_repository") ELSE run)
    /\ UNCHANGED <<pct, parser, results, agg>>

\* lines 367-375: the CI jobs of the repository and its unit-test coverage
ReadCiJobs ==
    /\ run.pc = "ci_jobs"
    /\ IF ci_jobs_table_enabled
       THEN IF run.job_statuses = None
            THEN /\ run' = Raise(run, "AttributeError")
                 /\ UNCHANGED results
            ELSE \E coverage \in UnitTestCoverageSamples :
                    /\ run' = Advance(Logged(run, "read_ci_jobs"))
                    /\ results' =
                         [results EXCEPT
                            !.ci_jobs_statuses =
                                Put(@, current_repository,
                                    repository_job_statuses(run.job_statuses[1], current_repository)),
                            !.unit_test_coverage = Put(@, current_repository, coverage)]
       ELSE /\ run' = Advance(run)
            /\ UNCHANGED results
    /\ UNCHANGED <<pct, parser, agg>>

\* lines 376-377: the overall status of the repository
UpdateOverallStatus ==
    /\ run.pc = "status"
    /\ IF code_quality_table_enabled
       THEN IF update_overall_status_raises(results, current_repository)
            THEN /\ run' = Raise(Logged(run, "update_overall_status"), "KeyError")
                 /\ UNCHANGED results
            ELSE /\ run' = Advance(Logged(run, "update_overall_status"))
                 /\ results' = update_overall_status(results, current_repository)
       ELSE /\ run' = Advance(run)
            /\ UNCHANGED results
    /\ UNCHANGED <<pct, parser, agg>>

\* lines 487-488 and 333-341
PrepareSlaTable ==
    /\ run.pc = "sla"
    /\ run' = [run EXCEPT !.pc = "export"]
    /\ results' = IF sla_table_enabled
                  THEN [results EXCEPT !.perf_tests_results = Some("read")]
                  ELSE results
    /\ UNCHANGED <<pct, parser, agg>>

\* lines 490-491 and 286-312: one row is appended to dashboard.csv
ExportIntoCsv ==
    /\ run.pc = "export"
    /\ IF export_guard
       THEN IF export_into_csv_raises(results)
            THEN run' = Raise(run, "KeyError")
            ELSE run' = [run EXCEPT !.pc = "dashboard", !.csv = Append(@, csv_record(results))]
       ELSE run' = [run EXCEPT !.pc = "dashboard"]
    /\ UNCHANGED <<pct, parser, results, agg>>

\* line 493
GenerateDashboard ==
    /\ run.pc = "dashboard"
    /\ run' = [run EXCEPT !.pc = "done", !.html = TRUE]
    /\ UNCHANGED <<pct, parser, results, agg>>

-----------------------------------------------------------------------------
(* Specifications *)

InitPercentage == PctInit /\ ParserIdle /\ StatusIdle /\ RunIdle
NextPercentage == PercentageCall
SpecPercentage == InitPercentage /\ [][NextPercentage]_vars

InitParser == PctIdle /\ ParserInit /\ StatusIdle /\ RunIdle
NextParser == ParseLinterLine \/ ParseLinterReturn
SpecParser == InitParser /\ [][NextParser]_vars

InitStatus == PctIdle /\ ParserIdle /\ StatusInit /\ RunIdle
NextStatus == UpdateOverallStatusCall
SpecStatus == InitStatus /\ [][NextStatus]_vars

Init == PctIdle /\ ParserIdle /\ StatusIdle /\ RunInit
Next ==
    \/ CheckEnvironmentVariable
    \/ ReadJobStatuses
    \/ ProductionSmoketestsStatus
    \/ PrepareLivenessStage
    \/ PrepareLivenessProduction
    \/ PrepareLivenessSmokeTests
    \/ CloneOrFetchRepository
    \/ RunPylint
    \/ RunDocstyleCheck
    \/ AccumulateResults
    \/ CleanupRepository
    \/ ReadCiJobs
    \/ UpdateOverallStatus
    \/ PrepareSlaTable
    \/ ExportIntoCsv
    \/ GenerateDashboard
Spec == Init /\ [][Next]_vars

-----------------------------------------------------------------------------
(* Properties of percentage *)

Digits == {SubSeq("0123456789", d, d) : d \in 1..10}

DigitValue(c) == CHOOSE d \in 0..9 : SubSeq("0123456789", d + 1, d + 1) = c

\* s is the decimal string of a natural number: digits only, no leading zero
IsDecimal(s) ==
    /\ Len(s) > 0
    /\ \A i \in 1..Len(s) : SubSeq(s, i, i) \in Digits
    /\ Len(s) > 1 => SubSeq(s, 1, 1) # "0"

RECURSIVE DecimalValue(_)
DecimalValue(s) ==
    IF Len(s) = 0 THEN 0
    ELSE 10 * DecimalValue(SubSeq(s, 1, Len(s) - 1)) + DigitValue(SubSeq(s, Len(s), Len(s)))

Abs(x) == IF x < 0 THEN -x ELSE x

\* C5: percentage(a, b) is "0" when a = b = 0; otherwise it is the decimal
\* string of an integer n in 0..100 that is nearest to 100*b/(a+b) (no integer
\* is closer: |n*(a+b) - 100*b| <= (a+b)/2); percentage(x, 0) = "0" for every
\* x, and percentage(0, x) = "100" for every x > 0.
C5_PercentageNearest ==
    pct.pc = "done" =>
        LET a == pct.part1
            b == pct.part2
            r == pct.ret[1]
        IN  /\ (a = 0 /\ b = 0) => r = "0"
            /\ (a + b > 0) =>
                  /\ IsDecimal(r)
                  /\ DecimalValue(r) \in 0..100
                  /\ 2 * Abs(DecimalValue(r) * (a + b) - 100 * b) <= a + b
            /\ (b = 0) => r = "0"
            /\ (a = 0 /\ b > 0) => r = "100"

\* 1 of 8 is 12.5 percent, an exact half, written "12"
C5_Witness ==
    pct.pc = "done" /\ pct.part1 = 7 /\ pct.part2 = 1 /\ pct.ret = Some("12")

-----------------------------------------------------------------------------
(* Properties of parse_linter_results *)

IsSourceLine(raw) == EndsWith(RStrip(raw), ".py")
IsPassLine(raw) == EndsWith(RStrip(raw), "    Pass")
IsFailLine(raw) == EndsWith(RStrip(raw), "    Fail")
IsMarkerLine(raw) == IsPassLine(raw) \/ IsFailLine(raw)

\* file-path lines, each followed by one Pass or Fail marker line
WellFormed(fin) ==
    /\ Len(fin) % 2 = 0
    /\ \A i \in 1..Len(fin) :
          IF i % 2 = 1 THEN IsSourceLine(fin[i]) ELSE IsMarkerLine(fin[i])

PathsOf(fin) == {Strip(fin[i]) : i \in {j \in 1..Len(fin) : j % 2 = 1}}

\* the index of the last file-path line of fin that names path
LastLineOf(fin, path) ==
    CHOOSE i \in 1..Len(fin) :
        /\ i % 2 = 1 /\ Strip(fin[i]) = path
        /\ \A j \in (i + 1)..Len(fin) : j % 2 = 1 => Strip(fin[j]) # path

\* C3: for a well-formed input, total = passed + failed, and the per-file map
\* has exactly one entry per distinct file path, whose value is the outcome of
\* the last marker seen for that path (TRUE for Pass, FALSE for Fail).
C3_WellFormedTally ==
    (parser.pc = "done" /\ WellFormed(parser.fin)) =>
        LET ret == parser.ret[1]
        IN  /\ ret.total = ret.passed + ret.failed
            /\ ret.total = Len(parser.fin) \div 2
            /\ DOMAIN ret.files = PathsOf(parser.fin)
            /\ \A path \in PathsOf(parser.fin) :
                  ret.files[path] = IsPassLine(parser.fin[LastLineOf(parser.fin, path) + 1])

\* the same path reported twice, first Pass and then Fail
C3_Witness ==
    /\ parser.pc = "done"
    /\ parser.fin = <<"a.py", "    Pass", "  a.py ", "    Fail">>
    /\ parser.ret[1].total = 2
    /\ DOMAIN parser.ret[1].files = {"a.py"}
    /\ parser.ret[1].files["a.py"] = FALSE

\* no file-path line among the lines read so far
NoSourceSeen == \A i \in 1..(parser.pos - 1) : ~IsSourceLine(parser.fin[i])

\* C4: as long as no file-path line has been read, the markers read so far have
\* changed nothing: passed, failed and total are 0 and the per-file map is
\* empty; the scan is never stuck before the end of the input.
C4_UnmatchedMarkerIgnored ==
    /\ (parser.pc \in {"scan", "done"} /\ NoSourceSeen) =>
          /\ parser.passed = 0 /\ parser.failed = 0 /\ parser.total = 0
          /\ DOMAIN parser.files = {}
    /\ (parser.pc = "scan" /\ parser.pos <= Len(parser.fin)) => ENABLED ParseLinterLine

\* two markers and no file-path line, read to the end
C4_Witness ==
    /\ parser.pc = "done"
    /\ parser.fin = <<"    Pass", "    Fail">>
    /\ parser.ret[1].total = 0
    /\ DOMAIN parser.ret[1].files = {}

-----------------------------------------------------------------------------
(* Properties of update_overall_status *)

NumIgnored(table, repository) ==
    IF repository \in DOMAIN table THEN Len(table[repository]) ELSE 0

\* s contains sub
Contains(s, sub) ==
    \E i \in 1..(Len(s) - Len(sub) + 1) : SubSeq(s, i, i + Len(sub) - 1) = sub

\* the five ok-conditions, on the inputs of the call
LinterCountOk(r) ==
    results.source_files[r].count
        = results.repo_linter_checks[r].total + NumIgnored(ignored_files_for_pylint, r)
DocstyleCountOk(r) ==
    results.source_files[r].count
        = results.repo_docstyle_checks[r].total + NumIgnored(ignored_files_for_pydocstyle, r)
LinterClean(r) == results.repo_linter_checks[r].failed = 0
DocstyleClean(r) == results.repo_docstyle_checks[r].failed = 0
CoveragePresent(r) == results.unit_test_coverage[r] # None
CoverageOk(r) ==
    CoveragePresent(r) /\ results.unit_test_coverage[r][1] >= CoverageThreshold

\* C1: the overall status is TRUE if and only if all five ok-conditions hold.
C1_StatusIffAllOk ==
    agg.pc = "done" =>
        LET r == agg.repository
        IN  results.overall_status[r] =
               (/\ LinterCountOk(r) /\ DocstyleCountOk(r)
                /\ LinterClean(r) /\ DocstyleClean(r) /\ CoverageOk(r))

\* a healthy repository with one file ignored by pydocstyle
C1_Witness ==
    /\ agg.pc = "done"
    /\ agg.repository = "fabric8-analytics-worker"
    /\ results.source_files[agg.repository].count = 3
    /\ results.repo_docstyle_checks[agg.repository].total = 2
    /\ results.overall_status[agg.repository] = TRUE

NoIgnoreEntry(r) ==
    r \notin DOMAIN ignored_files_for_pylint /\ r \notin DOMAIN ignored_files_for_pydocstyle

\* C2: for a repository in neither ignore-list, the remarks are empty if and
\* only if the overall status is TRUE, and every violated ok-condition has its
\* own remark in the string.
C2_RemarksEmptyIffOk ==
    (agg.pc = "done" /\ NoIgnoreEntry(agg.repository)) =>
        LET r == agg.repository
            remarks == results.remarks[r]
        IN  /\ (remarks = "") = (results.overall_status[r] = TRUE)
            /\ ~LinterCountOk(r) =>
                  Contains(remarks, "not all source files are checked by linter<br>")
            /\ ~DocstyleCountOk(r) =>
                  Contains(remarks, "not all source files are checked by pydocstyle<br>")
            /\ ~LinterClean(r) => Contains(remarks, "linter failed<br>")
            /\ ~DocstyleClean(r) => Contains(remarks, "pydocstyle check failed<br>")
            /\ ~CoveragePresent(r) => Contains(remarks, "unit tests has not been setup<br>")
            /\ (CoveragePresent(r) /\ ~CoverageOk(r)) =>
                  Contains(remarks, "improve code coverage<br>")

\* 10 source files, both checkers saw 10, no failures, coverage 85
C2_Witness ==
    /\ agg.pc = "done"
    /\ agg.repository = "fabric8-analytics-common"
    /\ results.source_files[agg.repository].count = 10
    /\ results.repo_linter_checks[agg.repository].total = 10
    /\ results.repo_docstyle_checks[agg.repository].total = 10
    /\ results.repo_linter_checks[agg.repository].failed = 0
    /\ results.repo_docstyle_checks[agg.repository].failed = 0
    /\ results.unit_test_coverage[agg.repository] = Some(85)
    /\ results.overall_status[agg.repository] = TRUE
    /\ results.remarks[agg.repository] = ""

-----------------------------------------------------------------------------
(* Properties of main *)

MissingVariables == RequiredVariables \ run.environ

\* C6: when a required environment variable is missing, the run never gets
\* past check_environment_variables: it exits there with a non-zero status,
\* and no probe is sent, no repository step is taken, no CSV row and no HTML
\* is written.
C6_MissingVariableExitsFirst ==
    (run.pc # "idle" /\ MissingVariables # {}) =>
        /\ run.pc \in {"check_env", "exited"}
        /\ run.pc = "exited" => (run.exit_code # None /\ run.exit_code[1] # 0)
        /\ run.pc = "check_env" => ENABLED CheckEnvironmentVariable
        /\ run.probes = {}
        /\ run.log = <<>>
        /\ run.csv = <<>>
        /\ ~run.html
        /\ results = NewResults

\* only the last variable of the list is missing
C6_Witness ==
    /\ run.pc = "exited"
    /\ run.exit_code = Some(1)
    /\ MissingVariables = {"S3_REGION_NAME"}
    /\ run.env_i = Len(environment_variables)
    /\ run.probes = {}

\* C7: a failed probe is not fatal: no exception leaves main after a probe
\* has failed.
C7_ProbeFailureNonFatal ==
    run.failed_probes # {} => (run.raised = None /\ run.pc # "raised")

\* C8 as stated: a run that generated the dashboard appended exactly one row.
C8_ExactlyOneRowPerRun ==
    run.html => Len(run.csv) = 1

\* C8, amended: a run that generated the dashboard appended exactly one row
\* when the code-quality table and the liveness table are both enabled, and no
\* row otherwise; no run appends more than one row.
C8_OneRowIffBothTables ==
    /\ Len(run.csv) <= 1
    /\ run.html =>
          Len(run.csv) = (IF code_quality_table_enabled /\ liveness_table_enabled
                          THEN 1 ELSE 0)

\* a finished run with its row: the date, 8 liveness columns and 8 columns
\* per repository
C8_Witness ==
    /\ run.pc = "done"
    /\ run.html
    /\ Len(run.csv) = 1
    /\ Len(run.csv[1]) = 1 + 8 + 8 * Len(repositories)
    /\ run.csv[1][1] = TodaySample
    /\ ~sla_table_enabled

AllStepsEnabled ==
    /\ clone_repositories_enabled /\ code_quality_table_enabled
    /\ cleanup_repositories_enabled /\ ci_jobs_table_enabled

IsPrefix(s, t) == Len(s) <= Len(t) /\ SubSeq(t, 1, Len(s)) = s

RECURSIVE StepsOfAll(_, _)
\* for each repository in turn, its steps in the given order
StepsOfAll(repos, order) ==
    IF repos = <<>> THEN <<>>
    ELSE [i \in DOMAIN order |-> <<Head(repos), order[i]>>] \o StepsOfAll(Tail(repos), order)

ClaimedOrder ==
    <<"clone_or_fetch_repository", "run_pylint", "run_docstyle_check",
      "update_overall_status", "cleanup_repository">>

CodeOrder ==
    <<"clone_or_fetch_repository", "run_pylint", "run_docstyle_check",
      "cleanup_repository", "update_overall_status">>

IsNamedStep(entry) == entry[2] \in {ClaimedOrder[i] : i \in DOMAIN ClaimedOrder}

\* the steps the claim names, as they happened
NamedSteps == SelectSeq(run.log, IsNamedStep)

\* C9 as stated: clone/fetch, lint, docstyle, status update, cleanup, one
\* repository after the other.
C9_StatusBeforeCleanup ==
    (run.pc # "idle" /\ AllStepsEnabled) =>
        IsPrefix(NamedSteps, StepsOfAll(repositories, ClaimedOrder))

\* C9, amended: with all steps enabled the steps of each repository occur in
\* the order clone/fetch, lint, docstyle, cleanup of the cloned directory,
\* overall-status update, and every step of one repository completes before
\* the first step of the next; a finished run has taken them all.
C9_CleanupBeforeStatus ==
    (run.pc # "idle" /\ AllStepsEnabled) =>
        /\ IsPrefix(NamedSteps, StepsOfAll(repositories, CodeOrder))
        /\ run.pc = "done" => NamedSteps = StepsOfAll(repositories, CodeOrder)

\* a finished run with everything enabled
C9_Witness ==
    /\ run.pc = "done"
    /\ AllStepsEnabled
    /\ Len(NamedSteps) = 5 * Len(repositories)
    /\ NamedSteps[4] = <<repositories[1], "cleanup_repository">>
    /\ NamedSteps[5] = <<repositories[1], "update_overall_status">>
    /\ NamedSteps[6] = <<repositories[2], "clone_or_fetch_repository">>

\* C10: whenever update_overall_status is about to be called, the source-file
\* record, the linter result, the docstyle result and the coverage entry of
\* the repository have been written in this run; job_statuses is not None
\* where it is dereferenced.
C10_InputsWrittenBeforeStatus ==
    /\ (run.pc = "status" /\ code_quality_table_enabled) =>
          /\ current_repository \in DOMAIN results.source_files
          /\ current_repository \in DOMAIN results.repo_linter_checks
          /\ current_repository \in DOMAIN results.repo_docstyle_checks
          /\ current_repository \in DOMAIN results.unit_test_coverage
    /\ (run.pc = "ci_jobs" /\ ci_jobs_table_enabled) => run.job_statuses # None
    /\ run.pc = "liveness_smoke_tests" => run.job_statuses # None
    /\ run.raised \notin {Some("KeyError"), Some("AttributeError")}

====
